---------------------------- MODULE Spec2Model ----------------------------
(***************************************************************************)
(* A model of the rectpack packing service: the packing engine of          *)
(* app/packing.py (quantizer, seed mixer, orientation resolver, pre-flight *)
(* validation, bin and instance builders, guillotine checker, evaluator    *)
(* and the multi-restart search driver `optimize`).                        *)
(*                                                                         *)
(* Conventions.                                                            *)
(*  - Millimetre values are floats in the program.  Here a millimetre      *)
(*    value is an integer count of half millimetres (MmDen = 2), so that   *)
(*    values such as 0.5 mm, which binary floats hold exactly, exist and   *)
(*    the rounding of the quantizer is exercised.  Areas are therefore in  *)
(*    quarter square millimetres.                                          *)
(*  - 64-bit words are sequences of 8 bytes, least significant first.      *)
(*  - None is the absent value of an Optional field.                       *)
(***************************************************************************)
EXTENDS Integers, Sequences, FiniteSets, TLC

\* An Optional[str] field without a value.
None == "None"
\* An Optional integer or record is a sequence: empty without a value.
Absent == <<>>
Some(v) == <<v>>
\* Python's `v or d` for an Optional integer: d when v is None or 0.
OrDefault(v, d) == IF v = Absent \/ v[1] = 0 THEN d ELSE v[1]

\* Denominator of the millimetre representation: a value v stands for v/2 mm.
MmDen == 2

Max(a, b) == IF a >= b THEN a ELSE b
Min(a, b) == IF a <= b THEN a ELSE b

RECURSIVE GCD(_, _)
GCD(a, b) == IF b = 0 THEN a ELSE GCD(b, a % b)

\* The rational n/d in lowest terms (d > 0), as the pair <<n, d>>.
Rat(n, d) == LET g == GCD(n, d) IN IF g = 0 THEN <<0, 1>> ELSE <<n \div g, d \div g>>

RECURSIVE SumSeq(_)
SumSeq(s) == IF s = <<>> THEN 0 ELSE Head(s) + SumSeq(Tail(s))

(***************************************************************************)
(* 64-bit words (packing.py masks with 0xFFFFFFFFFFFFFFFF).                *)
(***************************************************************************)
Pow2(k) == CASE k = 0 -> 1 [] k = 1 -> 2 [] k = 2 -> 4 [] k = 3 -> 8
             [] k = 4 -> 16 [] k = 5 -> 32 [] k = 6 -> 64 [] k = 7 -> 128

\* The 8 bytes f[1..8] as a tuple.
Bytes(f) == <<f[1], f[2], f[3], f[4], f[5], f[6], f[7], f[8]>>

\* A natural number below 2^31 as a 64-bit word.
Word(n) == <<n % 256, (n \div 256) % 256, (n \div 65536) % 256, (n \div 16777216) % 256,
             0, 0, 0, 0>>

\* A word written as 16 hexadecimal digits, most significant first.
HexWord(d) == Bytes([j \in 1..8 |-> d[18 - 2 * j] + 16 * d[17 - 2 * j]])

\* Bit k (0 = least significant) of word a; 0 beyond bit 63.
BitOf(a, k) == IF k > 63 THEN 0 ELSE (a[(k \div 8) + 1] \div Pow2(k % 8)) % 2

\* (a + b) & 0xFFFFFFFFFFFFFFFF
Add64(a, b) ==
    LET c[j \in 0..8] == IF j = 0 THEN 0 ELSE (a[j] + b[j] + c[j - 1]) \div 256
    IN  Bytes([j \in 1..8 |-> (a[j] + b[j] + c[j - 1]) % 256])

\* (a * b) & 0xFFFFFFFFFFFFFFFF
Mul64(a, b) ==
    LET col == Bytes([k \in 1..8 |-> SumSeq([t \in 1..k |-> a[t] * b[k + 1 - t]])])
        c[k \in 0..8] == IF k = 0 THEN 0 ELSE (col[k] + c[k - 1]) \div 256
    IN  Bytes([k \in 1..8 |-> (col[k] + c[k - 1]) % 256])

\* a ^ (a >> s)
XorShr64(a, s) ==
    Bytes([j \in 1..8 |->
        SumSeq([t \in 1..8 |->
            ((BitOf(a, 8 * (j - 1) + t - 1) + BitOf(a, 8 * (j - 1) + t - 1 + s)) % 2)
                * Pow2(t - 1)])])

Golden == HexWord(<<9, 14, 3, 7, 7, 9, 11, 9, 7, 15, 4, 10, 7, 12, 1, 5>>)
MixA == HexWord(<<11, 15, 5, 8, 4, 7, 6, 13, 1, 12, 14, 4, 14, 5, 11, 9>>)
MixB == HexWord(<<9, 4, 13, 0, 4, 9, 11, 11, 1, 3, 3, 1, 1, 1, 14, 11>>)

\* packing.py _splitmix64, for a seed that is a natural number below 2^31.
_splitmix64(seed) ==
    LET x == Add64(Word(seed), Golden)
        z1 == Mul64(XorShr64(x, 30), MixA)
        z2 == Mul64(XorShr64(z1, 27), MixB)
    IN  XorShr64(z2, 31)

(***************************************************************************)
(* Configuration (app/config.py) and the quantizer.                        *)
(***************************************************************************)
max_instances == 5000
default_unit_scale == 100
HardInstanceLimit == 5000
MaxStock == 50
MinSliceMs == 30

\* Python's round(): the nearest integer to n/d (n >= 0, d > 0), a tie going
\* to the even neighbour.
PyRound(n, d) ==
    LET q == n \div d
        r == n % d
    IN  IF 2 * r < d THEN q
        ELSE IF 2 * r > d THEN q + 1
        ELSE IF q % 2 = 0 THEN q ELSE q + 1

\* packing.py _mm_to_int: int(round(value_mm * scale)).
_mm_to_int(value_mm, scale) == PyRound(value_mm * scale, MmDen)

\* packing.py _int_to_mm: value_int / scale, as a rational number of mm.
_int_to_mm(value_int, scale) == Rat(value_int, scale)

\* The rational q plus the millimetre value mm.
RatPlusMm(q, mm) == Rat(q[1] * MmDen + mm * q[2], q[2] * MmDen)

(***************************************************************************)
(* Mode and engine resolution.                                             *)
(***************************************************************************)
OrElse(v, d) == IF v = None THEN d ELSE v

\* The resolved engine of packing.py _resolve_mode_engine, before its checks.
ResolvedEngine(params) ==
    LET mode == OrElse(params.mode, "guillotine")
        default_packer == IF mode = "guillotine" THEN "guillotine" ELSE "maxrects"
        e == params.engine
    IN  IF e = Absent
        THEN [packer |-> default_packer, sort |-> "area_desc", bin_select |-> "best_fit"]
        ELSE [packer |-> OrElse(e[1].packer, default_packer),
              sort |-> OrElse(e[1].sort, "area_desc"),
              bin_select |-> OrElse(e[1].bin_select, "best_fit")]

\* packing.py _resolve_mode_engine: the pair (mode, engine), or a validation error.
_resolve_mode_engine(req) ==
    LET mode == OrElse(req.params.mode, "guillotine")
        engine == ResolvedEngine(req.params)
    IN  IF mode = "guillotine" /\ engine.packer # "guillotine"
        THEN [err |-> TRUE, mode |-> mode, engine |-> engine]
        ELSE IF mode = "nested" /\ engine.packer = "guillotine"
        THEN [err |-> TRUE, mode |-> mode, engine |-> engine]
        ELSE [err |-> FALSE, mode |-> mode, engine |-> engine]

(***************************************************************************)
(* Orientation resolver.                                                   *)
(***************************************************************************)
Orient(w, h, rotated) == [w |-> w, h |-> h, rotated |-> rotated]

\* A resolver that turns the item for its pattern direction without asking
\* whether rotation is allowed.
AlwaysTurns(width_mm, height_mm, rotation, pattern) ==
    LET plain == [err |-> FALSE, list |-> <<Orient(width_mm, height_mm, FALSE)>>]
        turned == [err |-> FALSE, list |-> <<Orient(height_mm, width_mm, TRUE)>>]
    IN  IF width_mm = height_mm THEN plain
        ELSE IF pattern = "none"
        THEN IF rotation = "allow_90"
             THEN [err |-> FALSE, list |-> plain.list \o turned.list]
             ELSE plain
        ELSE IF pattern = "along_width"
        THEN IF width_mm >= height_mm THEN plain ELSE turned
        ELSE IF width_mm < height_mm THEN plain ELSE turned

\* packing.py _allowed_orientations: the ordered list of orientations, or
\* err = TRUE where the code raises ValidationError.
_allowed_orientations(width_mm, height_mm, rotation, pattern) ==
    LET base == IF rotation = "allow_90"
                THEN <<Orient(width_mm, height_mm, FALSE), Orient(height_mm, width_mm, TRUE)>>
                ELSE <<Orient(width_mm, height_mm, FALSE)>>
        larger_is_width == width_mm >= height_mm
        ok(list) == [err |-> FALSE, list |-> list]
        raise == [err |-> TRUE, list |-> <<>>]
    IN  IF width_mm = height_mm THEN ok(<<Orient(width_mm, height_mm, FALSE)>>)
        ELSE IF pattern = "none" THEN ok(base)
        ELSE IF pattern = "along_width"
        THEN IF larger_is_width THEN ok(<<Orient(width_mm, height_mm, FALSE)>>)
             ELSE IF rotation # "allow_90" THEN raise
             ELSE ok(<<Orient(height_mm, width_mm, TRUE)>>)
        ELSE IF pattern = "along_height"
        THEN IF ~larger_is_width THEN ok(<<Orient(width_mm, height_mm, FALSE)>>)
             ELSE IF rotation # "allow_90" THEN raise
             ELSE ok(<<Orient(height_mm, width_mm, TRUE)>>)
        ELSE ok(base)

(***************************************************************************)
(* Pre-flight validation and the bin builder.                              *)
(***************************************************************************)
TotalQty(items) == SumSeq([k \in 1..Len(items) |-> items[k].qty])

\* packing.py _validate_request: TRUE where the code raises ValidationError.
_validate_request(req, scale) ==
    LET trim == req.params.trim_mm
    IN  \/ req.units # "mm"
        \/ TotalQty(req.items) > Min(HardInstanceLimit, max_instances)
        \/ Len(req.stock) > MaxStock
        \/ \E k \in 1..Len(req.stock) :
              \/ trim.left + trim.right >= req.stock[k].width_mm
              \/ trim.top + trim.bottom >= req.stock[k].height_mm
        \/ scale <= 0

RECURSIVE Flatten(_)
Flatten(ss) == IF ss = <<>> THEN <<>> ELSE Head(ss) \o Flatten(Tail(ss))

\* packing.py _build_bins: one _BinMeta per sheet, in stock order then by index.
_build_bins(req, scale) ==
    LET trim == req.params.trim_mm
        one(stock, i) ==
            LET bin_w_mm == stock.width_mm - trim.left - trim.right
                bin_h_mm == stock.height_mm - trim.top - trim.bottom
            IN  [stock_id |-> stock.id, index |-> i,
                 width_mm |-> stock.width_mm, height_mm |-> stock.height_mm,
                 trim_left |-> trim.left, trim_top |-> trim.top,
                 bin_w_int |-> _mm_to_int(bin_w_mm, scale),
                 bin_h_int |-> _mm_to_int(bin_h_mm, scale),
                 bin_w_mm |-> bin_w_mm, bin_h_mm |-> bin_h_mm]
    IN  Flatten([k \in 1..Len(req.stock) |->
                    [i \in 1..req.stock[k].qty |-> one(req.stock[k], i - 1)]])

\* Whether an orientation's effective integer size fits some bin.
OrientationFits(o, spacing, bins, scale) ==
    LET w_eff_int == _mm_to_int(o.w + spacing, scale)
        h_eff_int == _mm_to_int(o.h + spacing, scale)
    IN  \E k \in 1..Len(bins) :
            w_eff_int <= bins[k].bin_w_int /\ h_eff_int <= bins[k].bin_h_int

\* A fit check on the placed size, without the spacing.
FitWithoutSpacing(req, bins, scale) ==
    \E k \in 1..Len(req.items) :
        LET item == req.items[k]
            os == _allowed_orientations(item.width_mm, item.height_mm,
                                        item.rotation, item.pattern_direction)
        IN  \/ os.err
            \/ ~\E j \in 1..Len(os.list) : OrientationFits(os.list[j], 0, bins, scale)

\* packing.py _validate_fit: TRUE where the code raises ValidationError (from
\* the orientation resolver, or "item cannot fit into any stock").
_validate_fit(req, bins, scale) ==
    \E k \in 1..Len(req.items) :
        LET item == req.items[k]
            os == _allowed_orientations(item.width_mm, item.height_mm,
                                        item.rotation, item.pattern_direction)
        IN  \/ os.err
            \/ ~\E j \in 1..Len(os.list) :
                    OrientationFits(os.list[j], req.params.spacing_mm, bins, scale)

(***************************************************************************)
(* Instance builder.  random.Random(seed) is a deterministic function of   *)
(* the seed whose values are not modelled: every outcome of its choices    *)
(* and of its shuffle is possible for a seed seen for the first time.      *)
(***************************************************************************)
\* The (item index, instance number) of every instance, in rect_id order.
RECURSIVE InstanceSlots(_, _)
InstanceSlots(items, k) ==
    IF k > Len(items) THEN <<>>
    ELSE [idx \in 1..items[k].qty |-> <<k, idx>>] \o InstanceSlots(items, k + 1)

\* The (rect_id, _RectMeta) pair of slot number rid in orientation o.
Instance(req, scale, rid, slot, o) ==
    LET item == req.items[slot[1]]
        spacing == req.params.spacing_mm
    IN  [rid |-> rid, item_id |-> item.id, instance |-> slot[2],
         width_mm |-> o.w, height_mm |-> o.h, rotated |-> o.rotated,
         pattern_direction |-> item.pattern_direction,
         width_eff_int |-> _mm_to_int(o.w + spacing, scale),
         height_eff_int |-> _mm_to_int(o.h + spacing, scale)]

SortKey(sort_mode, inst) ==
    IF sort_mode = "maxside_desc" THEN Max(inst.width_eff_int, inst.height_eff_int)
    ELSE inst.width_eff_int * inst.height_eff_int

\* list.sort(key=..., reverse=True): descending and stable.
RECURSIVE InsertDesc(_, _, _)
InsertDesc(sorted, e, sort_mode) ==
    IF sorted = <<>> THEN <<e>>
    ELSE IF SortKey(sort_mode, Head(sorted)) >= SortKey(sort_mode, e)
         THEN <<Head(sorted)>> \o InsertDesc(Tail(sorted), e, sort_mode)
         ELSE <<e>> \o sorted

RECURSIVE SortDesc(_, _)
SortDesc(list, sort_mode) ==
    IF list = <<>> THEN <<>>
    ELSE InsertDesc(SortDesc(SubSeq(list, 1, Len(list) - 1), sort_mode),
                    list[Len(list)], sort_mode)

Permutations1(n) == {p \in [1..n -> 1..n] : \A a, b \in 1..n : a # b => p[a] # p[b]}

\* packing.py _build_instances: the instance lists the call can return, one
\* for each outcome of rng.choice (drawn only for an item with more than one
\* orientation) and of rng.shuffle.
_build_instances(req, engine, scale) ==
    LET slots == InstanceSlots(req.items, 1)
        n == Len(slots)
        os(k) == LET item == req.items[slots[k][1]]
                 IN  _allowed_orientations(item.width_mm, item.height_mm,
                                           item.rotation, item.pattern_direction).list
        picks == {c \in [1..n -> 1..2] : \A k \in 1..n : c[k] <= Len(os(k))}
        sort_mode == OrElse(engine.sort, "area_desc")
        built(c) == [k \in 1..n |-> Instance(req, scale, k, slots[k], os(k)[c[k]])]
        shuffled(c, p) == [k \in 1..n |-> built(c)[p[k]]]
    IN  {IF sort_mode # "none" THEN SortDesc(shuffled(c, p), sort_mode) ELSE shuffled(c, p) :
            c \in picks, p \in Permutations1(n)}

(***************************************************************************)
(* Packer adapter.  rectpack is an external library: its output for a      *)
(* given ordered input is a deterministic function, of which the model     *)
(* keeps the contract only.  Rectangles are taken in input order and never *)
(* rotated.  A rectangle goes into a bin already in use, at a corner       *)
(* position (0 or the far edge of a rectangle already in that bin), inside *)
(* the bin and clear of the rectangles already there; or to the origin of  *)
(* the first unused bin it fits; it is left out only when it fits no       *)
(* unused bin.  rect_list() reports bin by bin, in placement order.        *)
(***************************************************************************)
Overlap(a, b) ==
    /\ a.x_int < b.x_int + b.w_int /\ b.x_int < a.x_int + a.w_int
    /\ a.y_int < b.y_int + b.h_int /\ b.y_int < a.y_int + a.h_int

PackedRect(bin_index, x_int, y_int, inst) ==
    [bin_index |-> bin_index, x_int |-> x_int, y_int |-> y_int,
     w_int |-> inst.width_eff_int, h_int |-> inst.height_eff_int, rid |-> inst.rid]

\* The unused bins the rectangle fits.
EmptyFits(bins, inst, placed) ==
    {b \in 0..(Len(bins) - 1) :
        /\ ~\E r \in placed : r.bin_index = b
        /\ inst.width_eff_int <= bins[b + 1].bin_w_int
        /\ inst.height_eff_int <= bins[b + 1].bin_h_int}

\* The places the packer can give the rectangle.
PackOptions(bins, inst, placed) ==
    LET open == {r.bin_index : r \in placed}
        fresh == EmptyFits(bins, inst, placed)
        inOpen(b) ==
            LET here == {r \in placed : r.bin_index = b}
                xs == {0} \cup {r.x_int + r.w_int : r \in here}
                ys == {0} \cup {r.y_int + r.h_int : r \in here}
            IN  {r \in {PackedRect(b, x, y, inst) : x \in xs, y \in ys} :
                    /\ r.x_int + r.w_int <= bins[b + 1].bin_w_int
                    /\ r.y_int + r.h_int <= bins[b + 1].bin_h_int
                    /\ \A q \in here : ~Overlap(r, q)}
    IN  UNION {inOpen(b) : b \in open}
        \cup (IF fresh = {} THEN {}
              ELSE {PackedRect(CHOOSE b \in fresh : \A c \in fresh : b <= c, 0, 0, inst)})

RECURSIVE PackFrom(_, _, _, _)
PackFrom(bins, instances, k, placed) ==
    IF k > Len(instances) THEN {placed}
    ELSE (IF EmptyFits(bins, instances[k], placed) = {}
          THEN PackFrom(bins, instances, k + 1, placed)
          ELSE {})
         \cup UNION {PackFrom(bins, instances, k + 1, placed \cup {r}) :
                        r \in PackOptions(bins, instances[k], placed)}

\* The rectangles of `placed` in rect_list() order.
RectList(bins, instances, placed) ==
    LET ks(b) == SelectSeq([k \in 1..Len(instances) |-> k],
                           LAMBDA k : \E r \in placed :
                                         r.rid = instances[k].rid /\ r.bin_index = b)
        inBin(b) == [j \in 1..Len(ks(b)) |->
                        CHOOSE r \in placed : r.rid = instances[ks(b)[j]].rid]
    IN  Flatten([b \in 1..Len(bins) |-> inBin(b - 1)])

\* The lists _extract_rects can return after packer.pack().
PackerOutputs(bins, instances) ==
    {RectList(bins, instances, placed) : placed \in PackFrom(bins, instances, 1, {})}

(***************************************************************************)
(* Guillotine checker.                                                     *)
(***************************************************************************)
GRect(x, y, w, h) == [x |-> x, y |-> y, w |-> w, h |-> h]

SeqRange(s) == {s[k] : k \in 1..Len(s)}

\* A checker that tries vertical cuts only.
RECURSIVE VerticalCutsOnly(_, _, _, _, _)
VerticalCutsOnly(rects, x0, y0, w, h) ==
    IF Len(rects) <= 1 THEN TRUE
    ELSE
        LET rs == SeqRange(rects)
            xs == {r.x : r \in rs} \cup {r.x + r.w : r \in rs}
        IN  \E x \in xs :
                /\ ~(x <= x0 \/ x >= x0 + w)
                /\ ~\E r \in rs : r.x < x /\ x < r.x + r.w
                /\ VerticalCutsOnly(SelectSeq(rects, LAMBDA r : r.x + r.w <= x),
                                    x0, y0, x - x0, h)
                /\ VerticalCutsOnly(SelectSeq(rects, LAMBDA r : r.x >= x),
                                    x, y0, x0 + w - x, h)

\* packing.py _is_guillotine.
RECURSIVE _is_guillotine(_, _, _, _, _)
_is_guillotine(rects, x0, y0, w, h) ==
    IF Len(rects) <= 1 THEN TRUE
    ELSE
        LET rs == SeqRange(rects)
            xs == {r.x : r \in rs} \cup {r.x + r.w : r \in rs}
            ys == {r.y : r \in rs} \cup {r.y + r.h : r \in rs}
        IN  \/ \E x \in xs :
                /\ ~(x <= x0 \/ x >= x0 + w)
                /\ ~\E r \in rs : r.x < x /\ x < r.x + r.w
                /\ _is_guillotine(SelectSeq(rects, LAMBDA r : r.x + r.w <= x),
                                  x0, y0, x - x0, h)
                /\ _is_guillotine(SelectSeq(rects, LAMBDA r : r.x >= x),
                                  x, y0, x0 + w - x, h)
            \/ \E y \in ys :
                /\ ~(y <= y0 \/ y >= y0 + h)
                /\ ~\E r \in rs : r.y < y /\ y < r.y + r.h
                /\ _is_guillotine(SelectSeq(rects, LAMBDA r : r.y + r.h <= y),
                                  x0, y0, w, y - y0)
                /\ _is_guillotine(SelectSeq(rects, LAMBDA r : r.y >= y),
                                  x0, y, w, y0 + h - y)

(***************************************************************************)
(* Evaluator and response.                                                 *)
(***************************************************************************)
HasMeta(instances, rid) == \E k \in 1..Len(instances) : instances[k].rid = rid
MetaOf(instances, rid) == instances[CHOOSE k \in 1..Len(instances) : instances[k].rid = rid]

\* placements_by_bin after one more rectangle: a dict in insertion order, as a
\* sequence of (bin_index, placements) entries.
AddPlacement(by_bin, bin_index, placement) ==
    IF \E k \in 1..Len(by_bin) : by_bin[k].bin_index = bin_index
    THEN [k \in 1..Len(by_bin) |->
             IF by_bin[k].bin_index = bin_index
             THEN [by_bin[k] EXCEPT !.placements = Append(@, placement)]
             ELSE by_bin[k]]
    ELSE Append(by_bin, [bin_index |-> bin_index, placements |-> <<placement>>])

RECURSIVE PlacementsByBin(_, _, _, _, _)
PlacementsByBin(bins, rects, rect_meta, scale, k) ==
    IF k = 0 THEN <<>>
    ELSE
        LET before == PlacementsByBin(bins, rects, rect_meta, scale, k - 1)
            rect == rects[k]
        IN  IF ~HasMeta(rect_meta, rect.rid) THEN before
            ELSE
                LET meta == MetaOf(rect_meta, rect.rid)
                    bin_meta == bins[rect.bin_index + 1]
                IN  AddPlacement(before, rect.bin_index,
                        [item_id |-> meta.item_id, instance |-> meta.instance,
                         x_mm |-> RatPlusMm(_int_to_mm(rect.x_int, scale), bin_meta.trim_left),
                         y_mm |-> RatPlusMm(_int_to_mm(rect.y_int, scale), bin_meta.trim_top),
                         width_mm |-> meta.width_mm, height_mm |-> meta.height_mm,
                         rotated |-> meta.rotated,
                         pattern_direction |-> meta.pattern_direction])

\* packing.py _evaluate_solution.  Areas are in 1/MmDen^2 square millimetres.
_evaluate_solution(bins, rects, rect_meta, scale) ==
    LET placements_by_bin == PlacementsByBin(bins, rects, rect_meta, scale, Len(rects))
        used_bins_area ==
            SumSeq([k \in 1..Len(placements_by_bin) |->
                LET b == bins[placements_by_bin[k].bin_index + 1]
                IN  b.bin_w_mm * b.bin_h_mm])
        item_area ==
            SumSeq([k \in 1..Len(placements_by_bin) |->
                SumSeq([j \in 1..Len(placements_by_bin[k].placements) |->
                    placements_by_bin[k].placements[j].width_mm
                        * placements_by_bin[k].placements[j].height_mm])])
        waste_area == Max(0, used_bins_area - item_area)
    IN  [used_bins_count |-> Len(placements_by_bin),
         waste_area |-> waste_area,
         waste_percent |-> IF used_bins_area > 0 THEN Rat(waste_area * 100, used_bins_area)
                           ELSE <<0, 1>>,
         placements_by_bin |-> placements_by_bin,
         placed_count |-> SumSeq([k \in 1..Len(placements_by_bin) |->
                                     Len(placements_by_bin[k].placements)])]

\* The Solution list optimize builds from the incumbent's placements.
Solutions(req, bins, placements_by_bin) ==
    [k \in 1..Len(placements_by_bin) |->
        LET bin_meta == bins[placements_by_bin[k].bin_index + 1]
        IN  [stock_id |-> bin_meta.stock_id, index |-> bin_meta.index,
             width_mm |-> bin_meta.width_mm, height_mm |-> bin_meta.height_mm,
             trim_mm |-> req.params.trim_mm,
             placements |-> placements_by_bin[k].placements]]

\* svg.py render_svg: the text is assembled from the sheets' offsets and sizes
\* and from each placement's position, size and label, kept here as a term.
render_svg(solutions) ==
    IF solutions = <<>> THEN <<"empty">>
    ELSE <<"svg",
           [k \in 1..Len(solutions) |->
               [x_offset |-> SumSeq([j \in 1..(k - 1) |-> solutions[j].width_mm + 20 * MmDen]),
                sheet |-> <<solutions[k].trim_mm.left, solutions[k].trim_mm.top,
                            solutions[k].width_mm, solutions[k].height_mm>>,
                items |-> [j \in 1..Len(solutions[k].placements) |->
                              LET plc == solutions[k].placements[j]
                              IN  <<plc.x_mm, plc.y_mm, plc.width_mm, plc.height_mm,
                                    plc.item_id, plc.instance>>]]]>>

(***************************************************************************)
(* The decisions of the search driver, packing.py optimize.                *)
(***************************************************************************)
\* scale = req.params.unit_scale or settings.default_unit_scale
ResolveScale(req) == OrDefault(req.params.unit_scale, default_unit_scale)

\* used_seed = req.params.seed or int(time.time() * 1000)
ResolveSeed(req, now_ms) == OrDefault(req.params.seed, now_ms)

\* A budget that is not reduced when the slice is short.
NoReduction(time_limit_ms, restarts) == restarts

\* The restart budget computed before the loop.
RestartsUsed(time_limit_ms, restarts) ==
    LET slice_ms == time_limit_ms \div restarts
    IN  IF slice_ms < MinSliceMs
        THEN Min(restarts, Max(1, time_limit_ms \div MinSliceMs))
        ELSE restarts

\* The time check at the top of an iteration.
TimedOut(elapsed_ms, time_limit_ms) == elapsed_ms > time_limit_ms

\* An iteration without the completeness checks.
NeverIncomplete(rects, instances, placed_count) == FALSE

\* The two completeness checks of an iteration: TRUE where the code continues.
Incomplete(rects, instances, placed_count) ==
    \/ Len(rects) < Len(instances)
    \/ placed_count < Len(instances)

\* The rectangles of one bin, as the guillotine check receives them.
RectsOfBin(rects, bin_index) ==
    LET mine == SelectSeq(rects, LAMBDA r : r.bin_index = bin_index)
    IN  [k \in 1..Len(mine) |-> GRect(mine[k].x_int, mine[k].y_int, mine[k].w_int, mine[k].h_int)]

UsedBins(rects) == {rects[k].bin_index : k \in 1..Len(rects)}

\* An iteration without the guillotine filter.
NeverViolated(mode, rects, bins) == FALSE

\* The guillotine filter of an iteration: TRUE where the code sets `violated`.
GuillotineViolated(mode, rects, bins) ==
    /\ mode = "guillotine"
    /\ \E b \in UsedBins(rects) :
          ~_is_guillotine(RectsOfBin(rects, b), 0, 0, bins[b + 1].bin_w_int, bins[b + 1].bin_h_int)

LexLess(a, b) == a[1] < b[1] \/ (a[1] = b[1] /\ a[2] < b[2])

\* A comparison that also replaces the incumbent on a tie.
NotWorse(objective, used_bins_count, waste_area, best_used, best_waste) ==
    IF objective = "min_sheets"
    THEN ~LexLess(<<best_used, best_waste>>, <<used_bins_count, waste_area>>)
    ELSE ~LexLess(<<best_waste, best_used>>, <<waste_area, used_bins_count>>)

\* `better`: the candidate (used, waste) against the incumbent's.
Better(objective, used_bins_count, waste_area, best_used, best_waste) ==
    IF objective = "min_sheets"
    THEN LexLess(<<used_bins_count, waste_area>>, <<best_used, best_waste>>)
    ELSE LexLess(<<waste_area, used_bins_count>>, <<best_waste, best_used>>)

\* A driver that keeps the latest feasible candidate, whatever its key.
LatestWins(objective, best, ev, rect_meta, rects, restart) ==
    Some([used_bins_count |-> ev.used_bins_count, waste_area |-> ev.waste_area,
          waste_percent |-> ev.waste_percent,
          placements_by_bin |-> ev.placements_by_bin,
          rect_meta |-> rect_meta, rects |-> rects, restart |-> restart])

\* The incumbent after a feasible candidate.  `rects` and `restart` are not in
\* the code's tuple: they record which candidate the incumbent is.
NewBest(objective, best, ev, rect_meta, rects, restart) ==
    LET mine == Some([used_bins_count |-> ev.used_bins_count, waste_area |-> ev.waste_area,
                      waste_percent |-> ev.waste_percent,
                      placements_by_bin |-> ev.placements_by_bin,
                      rect_meta |-> rect_meta, rects |-> rects, restart |-> restart])
    IN  IF best = Absent THEN mine
        ELSE IF Better(objective, ev.used_bins_count, ev.waste_area,
                       best[1].used_bins_count, best[1].waste_area)
        THEN mine
        ELSE best

\* The OptimizeResponse built from the incumbent.
Response(req, mode, engine, bins, restarts_used, used_seed, best, time_ms) ==
    LET solutions == Solutions(req, bins, best.placements_by_bin)
    IN  [status |-> "ok",
         summary |-> [mode |-> mode, objective |-> req.params.objective,
                      used_stock_count |-> best.used_bins_count,
                      total_waste_area_mm2 |-> best.waste_area,
                      waste_percent |-> best.waste_percent,
                      time_ms |-> time_ms, restarts_used |-> restarts_used,
                      seed |-> used_seed,
                      engine |-> [packer |-> OrElse(engine.packer, "guillotine"),
                                  bin_select |-> OrElse(engine.bin_select, "best_fit"),
                                  sort |-> OrElse(engine.sort, "area_desc")]],
         solutions |-> solutions,
         artifacts |-> [svg |-> render_svg(solutions)]]

(***************************************************************************)
(* Bounds of the model and the requests it submits.                        *)
(***************************************************************************)
\* The same request is submitted Runs times, one call after the other.
Runs == 2
\* params.restarts ranges over 1..MaxRestarts.
MaxRestarts == 2
\* Between two clock reads the monotonic clock advances by 0 or ClockStepMs,
\* up to MaxClockSteps times in a call.
ClockStepMs == 60
MaxClockSteps == 2
\* time.time() in milliseconds is FirstWall at the first call and at most MaxWall.
FirstWall == 1
MaxWall == 2

TimeLimits == {50, 100}
\* Time limits and restart counts whose slice is below, at and above the
\* minimum slice, on a request with one layout only.
BudgetTimeLimits == {50, 90, 130}
BudgetRestarts == {3, 4, 5}
Seeds == {Absent, Some(0), Some(42)}
UnitScales == {Absent, Some(0), Some(0 - 1), Some(1)}

Mm(v) == v * MmDen
StockOf(id, w, h, qty) == [id |-> id, width_mm |-> Mm(w), height_mm |-> Mm(h), qty |-> qty]
ItemOf(id, w, h, qty, rotation, pattern) ==
    [id |-> id, width_mm |-> Mm(w), height_mm |-> Mm(h), qty |-> qty,
     rotation |-> rotation, pattern_direction |-> pattern]
TrimOf(l, r, t, b) == [left |-> Mm(l), right |-> Mm(r), top |-> Mm(t), bottom |-> Mm(b)]
Geometry(stock, items, spacing, trim) ==
    [stock |-> stock, items |-> items, spacing_mm |-> Mm(spacing), trim_mm |-> trim]

\* Two equal items that fill one sheet.
GPair == Geometry(<<StockOf("S", 2, 1, 1)>>, <<ItemOf("A", 1, 1, 2, "forbid", "none")>>,
                  0, TrimOf(0, 0, 0, 0))
\* The trim offset scenario: an 80 x 80 item on a 100 x 100 sheet trimmed by 10.
GTrim == Geometry(<<StockOf("S", 100, 100, 1)>>, <<ItemOf("A", 80, 80, 1, "forbid", "none")>>,
                  0, TrimOf(10, 10, 10, 10))
\* Trims that leave no usable width.
GTrimAll == Geometry(<<StockOf("S", 2, 1, 1)>>, <<ItemOf("A", 1, 1, 1, "forbid", "none")>>,
                     0, TrimOf(1, 1, 0, 0))
\* The spacing enforcement scenario.
GSpacing == Geometry(<<StockOf("S", 20, 10, 1)>>, <<ItemOf("A", 10, 10, 2, "forbid", "none")>>,
                     1, TrimOf(0, 0, 0, 0))
\* The rotation required by pattern scenario.
GPattern == Geometry(<<StockOf("S", 100, 100, 1)>>,
                     <<ItemOf("A", 30, 80, 1, "forbid", "along_width")>>, 0, TrimOf(0, 0, 0, 0))
\* An item that fits the sheet in one of its two orientations only.
GRotate == Geometry(<<StockOf("S", 2, 1, 1)>>, <<ItemOf("A", 1, 2, 1, "allow_90", "none")>>,
                    0, TrimOf(0, 0, 0, 0))
\* An item that may turn and a small one, two small sheets and a large one:
\* the candidates differ in sheets used and in waste.
GObjective == Geometry(<<StockOf("S", 1, 2, 2), StockOf("P", 2, 3, 1)>>,
                       <<ItemOf("A", 1, 2, 1, "allow_90", "none"),
                         ItemOf("B", 1, 1, 1, "forbid", "none")>>, 0, TrimOf(0, 0, 0, 0))
\* Four items that fit a 4 x 4 sheet as a pinwheel or in guillotine layouts;
\* two of them have the same area, so that the shuffle decides their order.
GPinwheel == Geometry(<<StockOf("S", 4, 4, 1)>>,
                      <<ItemOf("C", 2, 2, 1, "forbid", "none"), ItemOf("A", 3, 1, 1, "forbid", "none"),
                        ItemOf("B", 1, 2, 1, "forbid", "none"), ItemOf("E", 2, 1, 1, "forbid", "none")>>,
                      0, TrimOf(0, 0, 0, 0))

Engines == {Absent, Some([packer |-> "maxrects", bin_select |-> None, sort |-> "none"])}

Request(g, mode, engine, time_limit_ms, restarts, objective, seed, unit_scale) ==
    [units |-> "mm",
     params |-> [mode |-> mode, spacing_mm |-> g.spacing_mm, trim_mm |-> g.trim_mm,
                 time_limit_ms |-> time_limit_ms, restarts |-> restarts,
                 objective |-> objective, seed |-> seed, engine |-> engine,
                 unit_scale |-> unit_scale],
     stock |-> g.stock, items |-> g.items]

\* The parameters that decide validation, seeding and the time budget vary on
\* the small geometries; the geometries with more layouts are submitted with
\* an explicit scale and seed.
Requests ==
    {Request(GPair, None, Absent, tl, n, "min_waste", seed, us) :
        tl \in TimeLimits, n \in 1..MaxRestarts, seed \in Seeds, us \in UnitScales}
    \cup {Request(GRotate, None, Absent, tl, n, "min_waste", Some(42), Absent) :
        tl \in TimeLimits, n \in 1..MaxRestarts}
    \cup {Request(GPair, m, engine, 100, 1, "min_waste", Some(42), Absent) :
        m \in {None, "guillotine", "nested"}, engine \in Engines}
    \cup {Request(g, None, Absent, 100, 1, "min_waste", Some(42), us) :
        g \in {GTrim, GTrimAll, GSpacing, GPattern}, us \in UnitScales}
    \cup {Request(GObjective, "nested", Absent, 100, MaxRestarts, objective, Some(42), Some(1)) :
        objective \in {"min_waste", "min_sheets"}}
    \cup {Request(GPinwheel, None, Absent, 100, MaxRestarts, "min_sheets", Some(42), Some(1))}
    \cup {Request(GTrim, None, Absent, tl, n, "min_waste", Some(42), Some(1)) :
        tl \in BudgetTimeLimits, n \in BudgetRestarts}

(***************************************************************************)
(* State.                                                                  *)
(***************************************************************************)
VARIABLES
    req,            \* the request being served
    run,            \* the number of the current call, 1..Runs
    wall,           \* time.time() in milliseconds
    pc,             \* "entry", "loop" or "done": where the current call is
    results,        \* what each finished call returned or raised
    scale, mode, engine, bins, restarts_used, used_seed,   \* locals of optimize
    i,              \* the loop index
    elapsed,        \* milliseconds on the monotonic clock since start_time
    best,           \* the incumbent
    cands,          \* what each iteration of the current call produced
    instMemo,       \* the instance list random.Random gave for each seed
    packMemo,       \* the packer's output for each instance list
    fin, fout,      \* input and result of a function applied on its own
    gate            \* the job semaphore of the service and the requests at it

locals == <<scale, mode, engine, bins, restarts_used, used_seed, i, elapsed, best, cands>>
vars == <<req, run, wall, pc, results, locals, instMemo, packMemo, fin, fout, gate>>

NoRequest == [units |-> "none"]

\* The semaphore when no request is at the service.
NoGate == [value |-> 0, waiters |-> <<>>, task |-> <<>>]

IdleLocals ==
    /\ scale = 0 /\ mode = None /\ engine = Absent /\ bins = <<>>
    /\ restarts_used = 0 /\ used_seed = 0 /\ i = 0 /\ elapsed = 0
    /\ best = Absent /\ cands = <<>>

Init ==
    /\ req \in Requests
    /\ run = 1 /\ wall = FirstWall /\ pc = "entry" /\ results = <<>>
    /\ IdleLocals
    /\ instMemo = <<>> /\ packMemo = <<>>
    /\ fin = Absent /\ fout = Absent
    /\ gate = NoGate

(***************************************************************************)
(* The calls of optimize.                                                  *)
(***************************************************************************)
\* What optimize raises before start_time is read, or "ok".
Preflight(r) ==
    LET sc == ResolveScale(r)
        me == _resolve_mode_engine(r)
    IN  IF me.err THEN "VALIDATION"
        ELSE IF _validate_request(r, sc) THEN "VALIDATION"
        ELSE IF _validate_fit(r, _build_bins(r, sc), sc) THEN "VALIDATION"
        ELSE "ok"

Raise(code) == results' = Append(results, [status |-> code, response |-> Absent])

\* optimize raises ValidationError: from _resolve_mode_engine, _validate_request
\* or _validate_fit.
Reject ==
    /\ pc = "entry"
    /\ Preflight(req) = "VALIDATION"
    /\ Raise("VALIDATION")
    /\ pc' = "done"
    /\ UNCHANGED <<req, run, wall, locals, instMemo, packMemo, fin, fout, gate>>

\* optimize passes validation, builds the bins, reads start_time, computes the
\* restart budget and the base seed.
Start ==
    /\ pc = "entry"
    /\ Preflight(req) = "ok"
    /\ scale' = ResolveScale(req)
    /\ mode' = _resolve_mode_engine(req).mode
    /\ engine' = _resolve_mode_engine(req).engine
    /\ bins' = _build_bins(req, ResolveScale(req))
    /\ restarts_used' = RestartsUsed(req.params.time_limit_ms, req.params.restarts)
    /\ used_seed' = ResolveSeed(req, wall)
    /\ i' = 0 /\ elapsed' = 0 /\ best' = Absent /\ cands' = <<>>
    /\ pc' = "loop"
    /\ UNCHANGED <<req, run, wall, results, instMemo, packMemo, fin, fout, gate>>

\* The values a read of the monotonic clock can give after `elapsed`.
ClockReads == {e \in {elapsed, elapsed + ClockStepMs} : e <= ClockStepMs * MaxClockSteps}

\* The time check at the top of an iteration raises TimeoutError.
Timeout ==
    /\ pc = "loop" /\ i < restarts_used
    /\ \E e \in ClockReads :
          /\ TimedOut(e, req.params.time_limit_ms)
          /\ elapsed' = e
    /\ Raise("TIMEOUT")
    /\ pc' = "done"
    /\ UNCHANGED <<req, run, wall, scale, mode, engine, bins, restarts_used, used_seed,
                   i, best, cands, instMemo, packMemo, fin, fout, gate>>

\* One iteration of the restart loop that passes the time check: seed, build
\* instances, pack, extract, evaluate, filter, compare.
Restart ==
    /\ pc = "loop" /\ i < restarts_used
    /\ \E e \in ClockReads :
          /\ ~TimedOut(e, req.params.time_limit_ms)
          /\ elapsed' = e
    /\ \E seed_i \in {_splitmix64(used_seed + i)} :
           \E instances \in (IF seed_i \in DOMAIN instMemo THEN {instMemo[seed_i]}
                             ELSE _build_instances(req, engine, scale)) :
           \E rects \in (IF instances \in DOMAIN packMemo THEN {packMemo[instances]}
                         ELSE PackerOutputs(bins, instances)) :
              LET ev == _evaluate_solution(bins, rects, instances, scale)
                  feasible == /\ ~Incomplete(rects, instances, ev.placed_count)
                              /\ ~GuillotineViolated(mode, rects, bins)
              IN  /\ instMemo' = (seed_i :> instances) @@ instMemo
                  /\ packMemo' = (instances :> rects) @@ packMemo
                  /\ best' = IF feasible
                             THEN NewBest(req.params.objective, best, ev, instances, rects, i)
                             ELSE best
                  /\ cands' = Append(cands, [seed |-> seed_i, feasible |-> feasible,
                                             instances |-> instances, rects |-> rects,
                                             used_bins_count |-> ev.used_bins_count,
                                             waste_area |-> ev.waste_area])
    /\ i' = i + 1
    /\ UNCHANGED <<req, run, wall, pc, results, scale, mode, engine, bins,
                   restarts_used, used_seed, fin, fout, gate>>

\* The loop ended without an incumbent: optimize raises ConstraintError.
Infeasible ==
    /\ pc = "loop" /\ i = restarts_used
    /\ best = Absent
    /\ Raise("CONSTRAINT")
    /\ pc' = "done"
    /\ UNCHANGED <<req, run, wall, locals, instMemo, packMemo, fin, fout, gate>>

\* The loop ended with an incumbent: optimize reads the clock for time_ms and
\* returns the response.
Respond ==
    /\ pc = "loop" /\ i = restarts_used
    /\ best # Absent
    /\ \E e \in ClockReads :
          /\ elapsed' = e
          /\ results' = Append(results,
                [status |-> "ok",
                 response |-> Some(Response(req, mode, engine, bins, restarts_used,
                                            used_seed, best[1], e))])
    /\ pc' = "done"
    /\ UNCHANGED <<req, run, wall, scale, mode, engine, bins, restarts_used, used_seed,
                   i, best, cands, instMemo, packMemo, fin, fout, gate>>

\* The same request is submitted again, at a later wall-clock time.
NextCall ==
    /\ pc = "done" /\ run < Runs
    /\ run' = run + 1
    /\ wall' \in wall..MaxWall
    /\ pc' = "entry"
    /\ scale' = 0 /\ mode' = None /\ engine' = Absent /\ bins' = <<>>
    /\ restarts_used' = 0 /\ used_seed' = 0 /\ i' = 0 /\ elapsed' = 0
    /\ best' = Absent /\ cands' = <<>>
    /\ UNCHANGED <<req, results, instMemo, packMemo, fin, fout, gate>>

Next == Reject \/ Start \/ Timeout \/ Restart \/ Infeasible \/ Respond \/ NextCall

Spec == Init /\ [][Next]_vars

(***************************************************************************)
(* Properties of the search driver.                                        *)
(***************************************************************************)
\* The current call has passed validation.
Started == pc \in {"loop", "done"} /\ restarts_used > 0
\* The current call has ended, with this status.
Ended(status) == pc = "done" /\ results[Len(results)].status = status

\* C1: optimize ends in TIMEOUT only when no incumbent exists at that moment.
C1_TimeoutOnlyWithoutIncumbent == Ended("TIMEOUT") => best = Absent

SameExceptTime(a, b) ==
    [a EXCEPT !.summary.time_ms = 0] = [b EXCEPT !.summary.time_ms = 0]

\* C2: with params.seed provided, two calls on the same request that both
\* return a response return the same response, time_ms apart.
C2_Determinism ==
    (/\ req.params.seed # Absent
     /\ Len(results) >= 2
     /\ results[1].status = "ok" /\ results[2].status = "ok")
    => SameExceptTime(results[1].response[1], results[2].response[1])

\* C3: with params.seed provided the base seed is params.seed: restart k uses
\* SplitMix64(params.seed + k) and summary.seed is params.seed; without it the
\* base seed is the wall clock.
C3_BaseSeedIsParamsSeed ==
    Started =>
        /\ req.params.seed # Absent =>
              /\ used_seed = req.params.seed[1]
              /\ \A k \in 1..Len(cands) :
                    cands[k].seed = _splitmix64(req.params.seed[1] + (k - 1))
              /\ Ended("ok") =>
                    results[Len(results)].response[1].summary.seed = req.params.seed[1]
        /\ req.params.seed = Absent => used_seed = wall

\* The request of the spacing enforcement scenario, whatever its other parameters.
SpacingScenario ==
    /\ req.stock = GSpacing.stock /\ req.items = GSpacing.items
    /\ req.params.spacing_mm = Mm(1) /\ req.params.trim_mm = TrimOf(0, 0, 0, 0)

\* C4, as stated: the spacing enforcement scenario ends in CONSTRAINT.
C4_SpacingScenarioConstraint ==
    (SpacingScenario /\ pc = "done") => Ended("CONSTRAINT")

\* C4, amended: the spacing enforcement scenario ends in VALIDATION, raised
\* before any restart is run.
C4_SpacingScenarioValidation ==
    SpacingScenario =>
        /\ \A k \in 1..Len(results) : results[k].status = "VALIDATION"
        /\ pc # "loop" /\ cands = <<>>

\* The scenario is rejected with a positive scale by the fit check.
C4_Witness ==
    /\ SpacingScenario /\ Ended("VALIDATION")
    /\ ResolveScale(req) > 0
    /\ ~_validate_request(req, ResolveScale(req))

\* C5: a request whose unit_scale is zero or negative fails with VALIDATION
\* before any bin is built or any restart is run.
C5_NonPositiveScaleRejected ==
    (req.params.unit_scale # Absent /\ req.params.unit_scale[1] <= 0) =>
        /\ pc # "loop" /\ bins = <<>> /\ cands = <<>>
        /\ \A k \in 1..Len(results) : results[k].status = "VALIDATION"

\* All placements of a placements_by_bin, in order.
AllPlacements(by_bin) == Flatten([k \in 1..Len(by_bin) |-> by_bin[k].placements])

Count(seq, Test(_)) == Cardinality({k \in 1..Len(seq) : Test(seq[k])})

\* C6: in the incumbent, and in every response, each instance built for the
\* restart has exactly one packed rectangle and one placement: the placements
\* number sum(items.qty) and, per item, instance numbers 1..qty appear once
\* each; a restart whose packer output is short never becomes the incumbent.
C6_Completeness ==
    /\ best # Absent =>
          LET b == best[1]
              ps == AllPlacements(b.placements_by_bin)
          IN  /\ \A m \in 1..Len(b.rect_meta) :
                    /\ Count(b.rects, LAMBDA r : r.rid = b.rect_meta[m].rid) = 1
                    /\ Count(ps, LAMBDA q : /\ q.item_id = b.rect_meta[m].item_id
                                            /\ q.instance = b.rect_meta[m].instance) = 1
              /\ Len(b.rects) = Len(b.rect_meta)
              /\ Len(ps) = TotalQty(req.items)
              /\ \A n \in 1..Len(req.items) :
                    /\ Count(ps, LAMBDA q : q.item_id = req.items[n].id) = req.items[n].qty
                    /\ \A idx \in 1..req.items[n].qty :
                          Count(ps, LAMBDA q : q.item_id = req.items[n].id /\ q.instance = idx) = 1
              /\ Len(cands[b.restart + 1].rects) >= Len(cands[b.restart + 1].instances)
    /\ \A k \in 1..Len(results) :
          results[k].status = "ok" =>
              SumSeq([j \in 1..Len(results[k].response[1].solutions) |->
                         Len(results[k].response[1].solutions[j].placements)])
                  = TotalQty(req.items)

\* An incumbent of two instances of one item, after a restart whose packer
\* output was short.
C6_Witness ==
    /\ best # Absent
    /\ \E n \in 1..Len(req.items) : req.items[n].qty = 2
    /\ \E k \in 1..Len(cands) : Len(cands[k].rects) < Len(cands[k].instances)

\* The guillotine check of every used bin of a packer output.
AllBinsGuillotine(rects) ==
    \A b \in UsedBins(rects) :
        _is_guillotine(RectsOfBin(rects, b), 0, 0, bins[b + 1].bin_w_int, bins[b + 1].bin_h_int)

\* C7: in guillotine mode the incumbent passes the guillotine check on every
\* used bin, a candidate that fails it on some bin is never the incumbent, and
\* a loop in which every restart fails ends in CONSTRAINT.
C7_GuillotineLaw ==
    (Started /\ mode = "guillotine") =>
        /\ best # Absent =>
              /\ AllBinsGuillotine(best[1].rects)
              /\ best[1].rects = cands[best[1].restart + 1].rects
        /\ \A k \in 1..Len(cands) :
              ~AllBinsGuillotine(cands[k].rects) =>
                  ~(best # Absent /\ best[1].restart = k - 1)
        /\ (/\ pc = "done" /\ i = restarts_used
            /\ \A k \in 1..Len(cands) : ~AllBinsGuillotine(cands[k].rects))
           => Ended("CONSTRAINT")

\* A guillotine incumbent after a complete candidate that failed the check.
C7_Witness ==
    /\ Started /\ mode = "guillotine" /\ best # Absent
    /\ \E k \in 1..Len(cands) :
          /\ Len(cands[k].rects) = Len(cands[k].instances)
          /\ ~AllBinsGuillotine(cands[k].rects)

\* The objective's key of a candidate or incumbent.
ObjectiveKey(c) ==
    IF req.params.objective = "min_sheets" THEN <<c.used_bins_count, c.waste_area>>
    ELSE <<c.waste_area, c.used_bins_count>>

\* C8: the incumbent is, among the feasible candidates so far, the one of
\* minimal key under the objective and, among those of that key, the earliest;
\* the response reports it.
C8_IncumbentSelection ==
    Started =>
        LET feas == {k \in 1..Len(cands) : cands[k].feasible}
        IN  /\ (best = Absent) <=> (feas = {})
            /\ best # Absent =>
                  LET kb == best[1].restart + 1
                  IN  /\ kb \in feas
                      /\ best[1].rects = cands[kb].rects
                      /\ ObjectiveKey(best[1]) = ObjectiveKey(cands[kb])
                      /\ \A k \in feas :
                            /\ ~LexLess(ObjectiveKey(cands[k]), ObjectiveKey(best[1]))
                            /\ ObjectiveKey(cands[k]) = ObjectiveKey(best[1]) => kb <= k
            /\ Ended("ok") =>
                  LET sm == results[Len(results)].response[1].summary
                  IN  /\ sm.used_stock_count = best[1].used_bins_count
                      /\ sm.total_waste_area_mm2 = best[1].waste_area

\* A response whose incumbent replaced an earlier feasible one.
C8_Witness ==
    /\ Ended("ok")
    /\ cands[1].feasible
    /\ best[1].restart = 1
    /\ LexLess(ObjectiveKey(best[1]), ObjectiveKey(cands[1]))

(***************************************************************************)
(* The orientation resolver applied on its own.                            *)
(***************************************************************************)
MaxSide == 4
Rotations == {"forbid", "allow_90"}
Patterns == {"none", "along_width", "along_height"}

NoCall ==
    /\ req = NoRequest /\ run = 0 /\ wall = 0 /\ pc = "idle" /\ results = <<>>
    /\ IdleLocals
    /\ instMemo = <<>> /\ packMemo = <<>>

InitOrient ==
    /\ NoCall
    /\ fin \in {Some([w |-> w, h |-> h, rotation |-> r, pattern |-> p]) :
                   w \in 1..MaxSide, h \in 1..MaxSide, r \in Rotations, p \in Patterns}
    /\ fout = Absent
    /\ gate = NoGate

Resolve ==
    /\ fout = Absent
    /\ fout' = Some(_allowed_orientations(fin[1].w, fin[1].h, fin[1].rotation, fin[1].pattern))
    /\ UNCHANGED <<req, run, wall, pc, results, locals, instMemo, packMemo, fin, gate>>

NextOrient == Resolve

SpecOrient == InitOrient /\ [][NextOrient]_vars

\* C9: the resolver returns the list the specification defines, or fails
\* exactly when the pattern direction requires the rotated orientation and
\* rotation is forbid; it never returns a rotated entry when rotation is forbid.
C9_OrientationResolver ==
    fout # Absent =>
        LET w == fin[1].w
            h == fin[1].h
            rotation == fin[1].rotation
            pattern == fin[1].pattern
            out == fout[1]
            plain == <<Orient(w, h, FALSE)>>
            turned == <<Orient(h, w, TRUE)>>
            needs_turn == \/ pattern = "along_width" /\ w < h
                          \/ pattern = "along_height" /\ h < w
        IN  /\ out.err <=> (needs_turn /\ rotation = "forbid")
            /\ ~out.err =>
                  /\ out.list # <<>>
                  /\ w = h => out.list = plain
                  /\ (w # h /\ pattern = "none" /\ rotation = "allow_90") =>
                        out.list = plain \o turned
                  /\ (w # h /\ pattern = "none" /\ rotation = "forbid") => out.list = plain
                  /\ (w # h /\ pattern = "along_width") =>
                        /\ Len(out.list) = 1
                        /\ out.list[1].w >= out.list[1].h
                        /\ out.list = (IF w >= h THEN plain ELSE turned)
                  /\ (w # h /\ pattern = "along_height") =>
                        /\ Len(out.list) = 1
                        /\ out.list[1].h >= out.list[1].w
                        /\ out.list = (IF h >= w THEN plain ELSE turned)
                  /\ rotation = "forbid" =>
                        \A k \in 1..Len(out.list) : ~out.list[k].rotated

\* The pattern direction turned an item that may turn.
C9_Witness ==
    /\ fout # Absent /\ ~fout[1].err
    /\ fin[1].pattern = "along_width" /\ fin[1].w < fin[1].h
    /\ fout[1].list = <<Orient(fin[1].h, fin[1].w, TRUE)>>

(***************************************************************************)
(* The guillotine checker applied on its own.                              *)
(***************************************************************************)
\* The side of the square box the rectangles lie in.
BoxSide == 3
\* The origins of the box.
Origins == {<<0, 0>>, <<1, 2>>}

InteriorsMeet(a, b) ==
    /\ a.x < b.x + b.w /\ b.x < a.x + a.w
    /\ a.y < b.y + b.h /\ b.y < a.y + a.h

\* The rectangles of positive integer size inside the box at origin o.
BoxRects(o) ==
    {r \in {GRect(x, y, w, h) :
                x \in o[1]..(o[1] + BoxSide - 1), y \in o[2]..(o[2] + BoxSide - 1),
                w \in 1..BoxSide, h \in 1..BoxSide} :
        r.x + r.w <= o[1] + BoxSide /\ r.y + r.h <= o[2] + BoxSide}

\* An order on rectangles, to list a set in one way only.
RectRank(r) == ((r.x * 16 + r.y) * 16 + r.w) * 16 + r.h

\* Guillotine feasibility of a set of rectangles: a single rectangle or none,
\* or a straight line that crosses no interior, has rectangles on both sides
\* and leaves two guillotine-feasible sets.
RECURSIVE GuillotineFeasible(_)
GuillotineFeasible(R) ==
    \/ Cardinality(R) <= 1
    \/ \E c \in 0..(3 * BoxSide) :
          \/ LET lo == {r \in R : r.x + r.w <= c}
                 hi == {r \in R : r.x >= c}
             IN  /\ lo \cup hi = R /\ lo # {} /\ hi # {}
                 /\ GuillotineFeasible(lo) /\ GuillotineFeasible(hi)
          \/ LET lo == {r \in R : r.y + r.h <= c}
                 hi == {r \in R : r.y >= c}
             IN  /\ lo \cup hi = R /\ lo # {} /\ hi # {}
                 /\ GuillotineFeasible(lo) /\ GuillotineFeasible(hi)

\* Four rectangles turning around the middle cell of the box at origin o.
Pinwheel(o) ==
    {GRect(o[1], o[2], 2, 1), GRect(o[1] + 2, o[2], 1, 2),
     GRect(o[1] + 1, o[2] + 2, 2, 1), GRect(o[1], o[2] + 1, 1, 2)}

\* Four rectangles in two rows and two columns.
Grid(o) ==
    {GRect(o[1], o[2], 1, 1), GRect(o[1] + 1, o[2], 2, 1),
     GRect(o[1], o[2] + 1, 1, 2), GRect(o[1] + 1, o[2] + 1, 2, 2)}

InitGuillotine ==
    /\ NoCall
    /\ fin \in {Some([rects |-> <<>>, x0 |-> o[1], y0 |-> o[2], w |-> BoxSide, h |-> BoxSide]) :
                   o \in Origins}
    /\ fout = Absent
    /\ gate = NoGate

\* One more rectangle in the box, its interior disjoint from the others'.
AddRect ==
    /\ fout = Absent
    /\ \E r \in BoxRects(<<fin[1].x0, fin[1].y0>>) :
          /\ \A k \in 1..Len(fin[1].rects) :
                /\ ~InteriorsMeet(r, fin[1].rects[k])
                /\ RectRank(fin[1].rects[k]) < RectRank(r)
          /\ fin' = Some([fin[1] EXCEPT !.rects = Append(@, r)])
    /\ UNCHANGED <<req, run, wall, pc, results, locals, instMemo, packMemo, fout, gate>>

CheckGuillotine ==
    /\ fout = Absent
    /\ fout' = Some(_is_guillotine(fin[1].rects, fin[1].x0, fin[1].y0, fin[1].w, fin[1].h))
    /\ UNCHANGED <<req, run, wall, pc, results, locals, instMemo, packMemo, fin, gate>>

NextGuillotine == AddRect \/ CheckGuillotine

SpecGuillotine == InitGuillotine /\ [][NextGuillotine]_vars

\* C10: on rectangles with disjoint interiors inside the box, _is_guillotine
\* returns true exactly when the set is guillotine-feasible; it returns false
\* for a pinwheel and true for an aligned grid.
C10_CheckerCorrect ==
    fout # Absent =>
        LET R == SeqRange(fin[1].rects)
            o == <<fin[1].x0, fin[1].y0>>
        IN  /\ fout[1] <=> GuillotineFeasible(R)
            /\ R = Pinwheel(o) => ~fout[1]
            /\ R = Grid(o) => fout[1]

\* The checker has rejected a pinwheel in the box away from the origin.
C10_Witness ==
    /\ fout = Some(FALSE)
    /\ fin[1].x0 = 1
    /\ SeqRange(fin[1].rects) = Pinwheel(<<1, 2>>)

(***************************************************************************)
(* A multi-restart call followed by the same request forced to one restart. *)
(***************************************************************************)
\* The request is submitted again with params.restarts = 1.
ForceSingle ==
    /\ pc = "done" /\ run = 1
    /\ req.params.restarts > 1
    /\ run' = 2
    /\ req' = [req EXCEPT !.params.restarts = 1]
    /\ wall' \in wall..MaxWall
    /\ pc' = "entry"
    /\ scale' = 0 /\ mode' = None /\ engine' = Absent /\ bins' = <<>>
    /\ restarts_used' = 0 /\ used_seed' = 0 /\ i' = 0 /\ elapsed' = 0
    /\ best' = Absent /\ cands' = <<>>
    /\ UNCHANGED <<results, instMemo, packMemo, fin, fout, gate>>

NextSingle == Reject \/ Start \/ Timeout \/ Restart \/ Infeasible \/ Respond \/ ForceSingle

SpecSingle == Init /\ [][NextSingle]_vars

\* The multi-restart call and the single-restart call have both returned a
\* response, computed from the same base seed.
BothReturned ==
    /\ Len(results) = 2
    /\ results[1].status = "ok" /\ results[2].status = "ok"
    /\ results[1].response[1].summary.seed = results[2].response[1].summary.seed

\* The objective's key of a response.
ResponseKey(response) ==
    IF req.params.objective = "min_sheets"
    THEN <<response.summary.used_stock_count, response.summary.total_waste_area_mm2>>
    ELSE <<response.summary.total_waste_area_mm2, response.summary.used_stock_count>>

\* C11, as stated: the call forced to a single restart returns the incumbent
\* of the multi-restart call on the same base seed: same used_stock_count,
\* waste_area and placements.
C11_SingleRestartSameIncumbent ==
    BothReturned =>
        LET multi == results[1].response[1]
            single == results[2].response[1]
        IN  /\ single.summary.used_stock_count = multi.summary.used_stock_count
            /\ single.summary.total_waste_area_mm2 = multi.summary.total_waste_area_mm2
            /\ single.solutions = multi.solutions

\* C11, amended: the incumbent of the multi-restart call is never worse under
\* the objective than that of the call forced to a single restart, and the two
\* are the same incumbent whenever their keys are equal; when the single
\* restart is feasible at all, so is the multi-restart call.
C11_MultiRestartNoWorse ==
    /\ BothReturned =>
          LET multi == results[1].response[1]
              single == results[2].response[1]
          IN  /\ ~LexLess(ResponseKey(single), ResponseKey(multi))
              /\ ResponseKey(single) = ResponseKey(multi) =>
                    single.solutions = multi.solutions
              /\ single.summary.restarts_used = 1
    /\ (/\ Len(results) = 2 /\ results[2].status = "ok" /\ req.params.seed # Absent
        /\ req.params.seed[1] # 0 /\ run = 2 /\ req.params.restarts = 1)
       => results[1].status \in {"ok", "TIMEOUT"}

\* Both calls returned, and a later restart of the first gave it a strictly
\* better incumbent than the single restart's.
C11_Witness ==
    /\ BothReturned
    /\ results[1].response[1].summary.restarts_used > 1
    /\ LexLess(ResponseKey(results[1].response[1]), ResponseKey(results[2].response[1]))

(***************************************************************************)
(* Restart budgeting.                                                      *)
(***************************************************************************)
Clamp(v, lo, hi) == IF v < lo THEN lo ELSE IF v > hi THEN hi ELSE v

\* C12: restarts_used is restarts when time_limit_ms // restarts >= 30 and
\* clamp(time_limit_ms // 30, 1, restarts) otherwise; it lies in 1..restarts,
\* the loop runs at most restarts_used iterations and summary.restarts_used
\* reports it, however many restarts were feasible.
C12_RestartBudget ==
    Started =>
        LET tl == req.params.time_limit_ms
            n == req.params.restarts
        IN  /\ tl \div n >= 30 => restarts_used = n
            /\ tl \div n < 30 => restarts_used = Clamp(tl \div 30, 1, n)
            /\ 1 <= restarts_used /\ restarts_used <= n
            /\ i <= restarts_used /\ Len(cands) = i
            /\ Ended("ok") =>
                  results[Len(results)].response[1].summary.restarts_used = restarts_used

\* A response after a budget reduced to a value strictly between 1 and
\* restarts.
C12_Witness ==
    /\ Ended("ok")
    /\ 1 < restarts_used /\ restarts_used < req.params.restarts
    /\ results[Len(results)].response[1].summary.restarts_used = restarts_used

(***************************************************************************)
(* The quantizer applied on its own.                                       *)
(***************************************************************************)
\* The largest millimetre value, in units of 1/MmDen mm, and the largest scale.
MaxValue == 15
MaxScale == 5

InitQuantize ==
    /\ NoCall
    /\ fin \in {Some([value_mm |-> v, scale |-> sc]) : v \in 0..MaxValue, sc \in 1..MaxScale}
    /\ fout = Absent
    /\ gate = NoGate

Quantize ==
    /\ fout = Absent
    /\ fout' = Some(_mm_to_int(fin[1].value_mm, fin[1].scale))
    /\ UNCHANGED <<req, run, wall, pc, results, locals, instMemo, packMemo, fin, gate>>

NextQuantize == Quantize

SpecQuantize == InitQuantize /\ [][NextQuantize]_vars

\* C13: for a non-negative value, to_int returns k + 1 when value * scale is
\* exactly k + 1/2, for even and odd k, and the nearest integer otherwise.
C13_RoundHalfAwayFromZero ==
    fout # Absent =>
        LET n == fin[1].value_mm * fin[1].scale     \* value * scale = n / MmDen
            k == n \div MmDen
            r == n % MmDen
        IN  /\ 2 * r = MmDen => fout[1] = k + 1
            /\ 2 * r < MmDen => fout[1] = k
            /\ 2 * r > MmDen => fout[1] = k + 1

(***************************************************************************)
(* The job gate of the service: main.py optimize_endpoint runs optimize    *)
(* in a thread, inside `async with JOB_SEMAPHORE`.  asyncio.Semaphore      *)
(* keeps a counter and a FIFO queue of waiters; release wakes the first    *)
(* waiter, who takes the permit when the event loop resumes it.  Whether a *)
(* request arriving between a release and that resumption takes the free   *)
(* permit or queues differs between Python versions: both are possible.    *)
(***************************************************************************)
\* config.py: MAX_CONCURRENT_JOBS, default 1.
max_concurrent_jobs == 1
\* The largest configured number of permits, and the number of requests.
MaxJobs == 2
NumRequests == 3

Tasks == 1..NumRequests
\* How an invocation of optimize ends: a response, or one of the errors.
Outcomes == {"ok", "VALIDATION", "CONSTRAINT", "TIMEOUT", "INTERNAL"}

NewTask == [phase |-> "new", waited |-> FALSE, outcome |-> None]

\* A gate that releases the permit only when optimize returns.
ReleasesOnReturn(outcome) == outcome = "ok"

\* `async with` releases the permit on every exit of its body.
Releases(outcome) == TRUE

InitGate ==
    /\ NoCall
    /\ fin \in {Some(n) : n \in {max_concurrent_jobs} \cup 1..MaxJobs}
    /\ fout = Absent
    /\ gate = [value |-> fin[1], waiters |-> <<>>, task |-> [t \in Tasks |-> NewTask]]

Phase(t) == gate.task[t].phase
Running == {t \in Tasks : Phase(t) = "running"}

\* POST /v1/optimize: Semaphore.acquire takes a permit at once.
Enter(t) ==
    /\ Phase(t) = "new"
    /\ gate.value > 0
    /\ gate' = [gate EXCEPT !.value = @ - 1, !.task[t].phase = "running"]
    /\ UNCHANGED <<req, run, wall, pc, results, locals, instMemo, packMemo, fin, fout>>

\* POST /v1/optimize: Semaphore.acquire queues the request, when no permit is
\* free or when others are ahead of it.
Queue(t) ==
    /\ Phase(t) = "new"
    /\ \/ gate.value = 0
       \/ \E u \in Tasks : Phase(u) \in {"waiting", "woken"}
    /\ gate' = [gate EXCEPT !.waiters = Append(@, t),
                            !.task[t].phase = "waiting", !.task[t].waited = TRUE]
    /\ UNCHANGED <<req, run, wall, pc, results, locals, instMemo, packMemo, fin, fout>>

\* The event loop resumes a woken waiter: it takes the permit, or waits
\* again if the permit has gone.
Resume(t) ==
    /\ Phase(t) = "woken"
    /\ gate' = IF gate.value > 0
               THEN [gate EXCEPT !.value = @ - 1, !.task[t].phase = "running"]
               ELSE [gate EXCEPT !.waiters = Append(@, t), !.task[t].phase = "waiting"]
    /\ UNCHANGED <<req, run, wall, pc, results, locals, instMemo, packMemo, fin, fout>>

\* optimize returns or raises; the body of `async with` is left, the permit
\* is released and the first waiter is woken.
Leave(t) ==
    /\ Phase(t) = "running"
    /\ \E o \in Outcomes :
          LET left == [gate EXCEPT !.task[t].phase = "done", !.task[t].outcome = o]
          IN  gate' = IF ~Releases(o) THEN left
                      ELSE IF left.waiters = <<>>
                      THEN [left EXCEPT !.value = @ + 1]
                      ELSE [left EXCEPT !.value = @ + 1,
                                        !.waiters = Tail(@),
                                        !.task[Head(left.waiters)].phase = "woken"]
    /\ UNCHANGED <<req, run, wall, pc, results, locals, instMemo, packMemo, fin, fout>>

NextGate == \E t \in Tasks : Enter(t) \/ Queue(t) \/ Resume(t) \/ Leave(t)

\* Running invocations terminate and the event loop runs every ready task.
SpecGate ==
    /\ InitGate /\ [][NextGate]_vars
    /\ \A t \in Tasks : WF_vars(Leave(t)) /\ WF_vars(Resume(t))

\* C14: never more than MAX_CONCURRENT_JOBS invocations of optimize run; the
\* permit is released when optimize returns and when it raises, so the free
\* permits and the running invocations always add up to the limit; every
\* waiting request eventually enters the core.
C14_ConcurrencyGate ==
    /\ [](/\ Cardinality(Running) <= fin[1]
          /\ gate.value + Cardinality(Running) = fin[1])
    /\ \A t \in Tasks : (Phase(t) \in {"waiting", "woken"}) ~> (Phase(t) = "running")

\* A request that had to wait runs after another invocation raised, with the
\* default limit.
C14_Witness ==
    /\ fin = Some(max_concurrent_jobs)
    /\ \E t \in Tasks :
          /\ Phase(t) = "running" /\ gate.task[t].waited
          /\ \E u \in Tasks : Phase(u) = "done" /\ gate.task[u].outcome = "TIMEOUT"

(***************************************************************************)
(* The recursion of the guillotine checker, one call at a time.            *)
(***************************************************************************)
\* The number of rectangles put in a list without regard to the box or to
\* each other.
MaxAnyRects == 2

Call(rects, x0, y0, w, h) == [rects |-> rects, x0 |-> x0, y0 |-> y0, w |-> w, h |-> h]

Check(c) == _is_guillotine(c.rects, c.x0, c.y0, c.w, c.h)

\* The cut positions that pass the two `continue` tests of a loop.
XCuts(c) ==
    LET rs == SeqRange(c.rects)
    IN  {x \in {r.x : r \in rs} \cup {r.x + r.w : r \in rs} :
            /\ ~(x <= c.x0 \/ x >= c.x0 + c.w)
            /\ ~\E r \in rs : r.x < x /\ x < r.x + r.w}
YCuts(c) ==
    LET rs == SeqRange(c.rects)
    IN  {y \in {r.y : r \in rs} \cup {r.y + r.h : r \in rs} :
            /\ ~(y <= c.y0 \/ y >= c.y0 + c.h)
            /\ ~\E r \in rs : r.y < y /\ y < r.y + r.h}

Left(c, x) == Call(SelectSeq(c.rects, LAMBDA r : r.x + r.w <= x), c.x0, c.y0, x - c.x0, c.h)
\* A right part that is checked in the caller's whole box.
RightInWholeBox(c, x) == Call(SelectSeq(c.rects, LAMBDA r : r.x >= x), c.x0, c.y0, c.w, c.h)
Right(c, x) == Call(SelectSeq(c.rects, LAMBDA r : r.x >= x), x, c.y0, c.x0 + c.w - x, c.h)
Bottom(c, y) == Call(SelectSeq(c.rects, LAMBDA r : r.y + r.h <= y), c.x0, c.y0, c.w, y - c.y0)
Top(c, y) == Call(SelectSeq(c.rects, LAMBDA r : r.y >= y), c.x0, y, c.w, c.y0 + c.h - y)

\* The recursive calls that the call c makes: the loops try the cuts in
\* increasing order and return at the first that succeeds; `and` evaluates its
\* second operand only when the first is true; the second loop runs only when
\* the first found no cut.
Calls(c) ==
    IF Len(c.rects) <= 1 THEN {}
    ELSE
        LET xok(x) == Check(Left(c, x)) /\ Check(Right(c, x))
            yok(y) == Check(Bottom(c, y)) /\ Check(Top(c, y))
            xtried == {x \in XCuts(c) : \A e \in XCuts(c) : e < x => ~xok(e)}
            ytried == IF \E x \in XCuts(c) : xok(x) THEN {}
                      ELSE {y \in YCuts(c) : \A e \in YCuts(c) : e < y => ~yok(e)}
        IN  {Left(c, x) : x \in xtried}
            \cup {Right(c, x) : x \in {e \in xtried : Check(Left(c, e))}}
            \cup {Bottom(c, y) : y \in ytried}
            \cup {Top(c, y) : y \in {e \in ytried : Check(Bottom(c, e))}}

\* The rectangles a list may hold when nothing is assumed of it: of zero or
\* positive size, overlapping, inside the box, across its border or outside.
AnyRects(o) ==
    {GRect(x, y, w, h) : x \in o[1]..(o[1] + BoxSide), y \in o[2]..(o[2] + BoxSide),
                         w \in 0..2, h \in 0..2}

\* One more rectangle in a list built without regard to the box, in the box
\* away from the origin.
AddAnyRect ==
    /\ fout = Absent
    /\ fin[1].x0 # 0
    /\ Len(fin[1].rects) < MaxAnyRects
    /\ \E r \in AnyRects(<<fin[1].x0, fin[1].y0>>) :
          /\ \A k \in 1..Len(fin[1].rects) : RectRank(fin[1].rects[k]) < RectRank(r)
          /\ fin' = Some([fin[1] EXCEPT !.rects = Append(@, r)])
    /\ UNCHANGED <<req, run, wall, pc, results, locals, instMemo, packMemo, fout, gate>>

\* The current call makes one of its recursive calls; fout keeps the caller.
Descend ==
    /\ \E c \in Calls(fin[1]) :
          /\ fin' = Some(c)
          /\ fout' = Some(fin[1])
    /\ UNCHANGED <<req, run, wall, pc, results, locals, instMemo, packMemo, gate>>

\* One more rectangle in a list of disjoint rectangles, in the box at the origin.
AddDisjointRect == fin[1].x0 = 0 /\ AddRect

NextDescent == AddDisjointRect \/ AddAnyRect \/ Descend

\* A call that is made is carried out.
SpecDescent == InitGuillotine /\ [][NextDescent]_vars /\ WF_vars(Descend)

\* C15: every recursive call receives strictly fewer rectangles, or the same
\* rectangles with a strictly smaller box of positive size, so every chain of
\* calls ends in a call that makes none.
C15_CheckerTerminates ==
    /\ [](fout # Absent =>
            LET c == fin[1]
                parent == fout[1]
            IN  \/ Len(c.rects) < Len(parent.rects)
                \/ /\ c.rects = parent.rects
                   /\ c.w >= 1 /\ c.h >= 1
                   /\ c.w * c.h < parent.w * parent.h)
    /\ (Calls(fin[1]) # {}) ~> (Calls(fin[1]) = {})

\* A call whose cut left one side empty: it received all its caller's
\* rectangles, more than one, in a smaller box, and recurses again.
C15_Witness ==
    /\ fout # Absent
    /\ fin[1].rects = fout[1].rects
    /\ Len(fin[1].rects) >= 2
    /\ Calls(fin[1]) # {}

(***************************************************************************)
(* The orientations drawn by the instance builder.                         *)
(***************************************************************************)
\* Whether an instance's effective integer size fits some bin.
InstanceFits(inst) ==
    \E b \in 1..Len(bins) :
        inst.width_eff_int <= bins[b].bin_w_int /\ inst.height_eff_int <= bins[b].bin_h_int

\* C16: after pre-flight validation has succeeded, every instance built in
\* any restart fits at least one bin in its effective integer size, and no
\* call ends in CONSTRAINT after drawing an orientation that fits no bin.
C16_DrawnOrientationFits ==
    Started =>
        /\ \A k \in 1..Len(cands) :
              \A m \in 1..Len(cands[k].instances) : InstanceFits(cands[k].instances[m])
        /\ Ended("CONSTRAINT") =>
              \A k \in 1..Len(cands) :
                  \A m \in 1..Len(cands[k].instances) : InstanceFits(cands[k].instances[m])

=============================================================================
